---- MODULE Spec2Model ----
(***************************************************************************)
(* ChatGPT Completion Notifier.                                            *)
(*                                                                         *)
(* Two components are modelled:                                            *)
(*   - the content script (src/content.js): one completion detector that   *)
(*     polls the page every POLL_INTERVAL_MS and debounces the end of a    *)
(*     generation with a cooldown (stability) timer;                       *)
(*   - the background service worker (src/background.js): the registry of  *)
(*     tabs (tabsData), its startup merge of stored state, the badge and   *)
(*     the notifications.                                                  *)
(*                                                                         *)
(* Time is the value of Date.now() in milliseconds.  The clock starts at   *)
(* Epoch > 0, so that a time stamp taken from the clock is truthy, as it   *)
(* is in JavaScript.                                                       *)
(***************************************************************************)
EXTENDS Integers, Sequences, FiniteSets, TLC

(***************************************************************************)
(* Bounds of the model.                                                    *)
(***************************************************************************)
\* Number of poll periods the detector's clock runs for.
MaxTicks == 10
\* Number of tabs the browser can hold.
MaxTabs == 2
\* Number of milliseconds the background's clock runs for.
MaxRegClock == 1
\* Number of ephemeral-store writes that can be waiting for their read.
MaxEphQ == 2
\* Number of toggleMonitoring calls that can be waiting at their await.
MaxPendingToggles == 1
\* Number of events the browser, the pages and the popup raise in a run.
MaxEvents == 2
\* Number of messages of a content script that can be waiting for the background.
MaxInFlight == 3
\* Number of poll periods the clock runs for on a page that posts time stamps.
MaxStampTicks == 4

(***************************************************************************)
(* Program constants.                                                      *)
(***************************************************************************)
POLL_INTERVAL_MS == 500
DefaultStabilityWindowMs == 1500
GraceMs == 3000
PreviewMax == 100
HistoryMax == 5

\* The first clock value: two poll periods after 0.
Epoch == 2 * POLL_INTERVAL_MS

\* JavaScript null / undefined for a number or a timer handle.
Null == -1

\* JavaScript truthiness of a number-or-null.
Truthy(x) == x # Null /\ x # 0

STATES == [IDLE |-> "idle", GENERATING |-> "generating", THINKING |-> "thinking",
           WRITING |-> "writing", COMPLETED |-> "completed"]

ActiveStates == {"generating", "thinking", "writing"}

\* The texts the last assistant message can show ('' when there is none).
Texts == {<<>>, <<"a">>}

\* stabilityWindowMs values a START_MONITORING request can carry
\* (Null: the option is absent, as on the page-load resume path).
WindowOptions == {Null, 2 * POLL_INTERVAL_MS}

VARIABLES
  \* ---- the clock and the page (signal source)
  now,                \* Date.now()
  ctxValid,           \* chrome.runtime.id is defined (extension context is valid)
  sigGenerating,      \* a "Stop" button is on the page
  sigThinking,        \* an "Answer now" button is on the page
  sigText,            \* innerText of the last assistant message
  \* ---- content.js state
  isMonitoring,
  wasGenerating,
  cooldownTimer,      \* Null, or the time the pending setTimeout is due
  pollInterval,       \* Null, or the time the next setInterval tick is due
  lastAssistantText,
  generationStartTime,
  stabilityWindowMs,
  currentState,
  graceTimers,        \* due times of the pending 3000 ms timeouts
  sent,               \* messages the last step sent to the background, in order
  \* ---- history of the detector (not program state)
  edgeObs,            \* last edge a tick observed since the last completion
  startEdgeAt,        \* time of the observed false->true edge of the generation
                      \* in progress or just completed
  stopEdgeAt,         \* time of the observed true->false edge a cooldown follows
  lastChangeAt        \* time of the last tick that saw the text change, while
                      \* it is less than the longest window ago

VARIABLES
  \* ---- the browser
  liveTabs,           \* ids of the open tabs that show ChatGPT
  csState,            \* currentState of the content script of each tab
  csArmed,            \* tabs whose content script has reported an active
                      \* state since its last completion
  badge,              \* number on the action badge (0: no text)
  ephStore,           \* chrome.storage.session: tabsDataEphemeral
  persistStore,       \* chrome.storage.local: tabsDataPersist
  monitoredStore,     \* chrome.storage.local: monitoredTabs
  \* ---- background.js state
  tabsData,
  monitoredTabs,
  settings,
  monLoaded,          \* the storage callback that fills monitoredTabs has run
  initPc,             \* where initializeTabsData / discoverChatGPTTabs is
  persistedData,      \* initializeTabsData: persistedData
  ephemeralData,      \* initializeTabsData: ephemeralData
  discTabs,           \* discoverChatGPTTabs: tabs still to visit (head: awaited)
  ephQ,               \* upsert/removeEphemeralTabData calls whose read has not
                      \* returned: the store image each will write, oldest first
  pendingToggles,     \* toggleMonitoring calls waiting for the content script
  effects,            \* what the last step asked of the browser, in order
  \* ---- history of the background (not program state)
  ephAtStart,         \* ephStore when the service worker started, less the
                      \* records of the sessions that have ended since
  created,            \* ids a session was ever created for
  lastComplete,       \* the last GENERATION_COMPLETE handled, and whether it
                      \* repeated the one before within a millisecond
  nComplete,          \* number of GENERATION_COMPLETE messages handled
  nEvents             \* number of events raised so far

VARIABLES
  \* ---- the message channel from the content script of a tab to the
  \* background (chrome.runtime.sendMessage), and its history
  chan,               \* messages sent and not yet handled, oldest first
  nSent,              \* number of messages the content script has sent
  lastApplied         \* number, in the order of sending, of the message the
                      \* background handled last (0: none)

linkVars == <<chan, nSent, lastApplied>>

\* The browser and the background but the channel.
bgVars == <<liveTabs, csState, csArmed, badge, ephStore, persistStore, monitoredStore,
            tabsData, monitoredTabs, settings, monLoaded, initPc,
            persistedData, ephemeralData, discTabs, ephQ, pendingToggles,
            effects, ephAtStart, created, lastComplete, nComplete,
            nEvents>>

regVars == <<bgVars, linkVars>>

detVars == <<now, ctxValid, sigGenerating, sigThinking, sigText, isMonitoring,
             wasGenerating, cooldownTimer, pollInterval, lastAssistantText,
             generationStartTime, stabilityWindowMs, currentState, graceTimers,
             sent, edgeObs, startEdgeAt, stopEdgeAt, lastChangeAt>>

\* The detector's variables but the clock.
detState == <<ctxValid, sigGenerating, sigThinking, sigText, isMonitoring,
              wasGenerating, cooldownTimer, pollInterval, lastAssistantText,
              generationStartTime, stabilityWindowMs, currentState,
              graceTimers, sent, edgeObs, startEdgeAt, stopEdgeAt, lastChangeAt>>

vars == <<detVars, regVars>>

(***************************************************************************)
(* content.js as functions on the detector's state d.                      *)
(* d.out collects the messages the call chain sends.                       *)
(***************************************************************************)
Det == [isMonitoring |-> isMonitoring, wasGenerating |-> wasGenerating,
        cooldownTimer |-> cooldownTimer, pollInterval |-> pollInterval,
        lastAssistantText |-> lastAssistantText,
        generationStartTime |-> generationStartTime,
        stabilityWindowMs |-> stabilityWindowMs, currentState |-> currentState,
        graceTimers |-> graceTimers, out |-> <<>>]

isGenerating == sigGenerating

isThinking == sigThinking

getAssistantText == sigText

getAssistantPreview ==
  IF Len(sigText) <= PreviewMax THEN sigText
  ELSE SubSeq(sigText, 1, PreviewMax) \o <<".", ".", ".">>

cancelCooldown(d) == [d EXCEPT !.cooldownTimer = Null]

stopMonitoring(d) ==
  [cancelCooldown(d) EXCEPT !.isMonitoring = FALSE, !.pollInterval = Null]

safeSendMessage(d, m) ==
  IF ~ctxValid THEN stopMonitoring(d)
  ELSE [d EXCEPT !.out = Append(@, m)]

StateChangeMsg(s, gst) ==
  [type |-> "STATE_CHANGE", state |-> s, generationStartTime |-> gst,
   preview |-> <<>>, duration |-> Null]

CompleteMsg(p, dur) ==
  [type |-> "GENERATION_COMPLETE", state |-> "completed",
   generationStartTime |-> Null, preview |-> p, duration |-> dur]

TimestampMsg(updateTime) ==
  [type |-> "CONVERSATION_TIMESTAMP", updateTime |-> updateTime]

\* Mutation of onPageTimestamp: the time stamp is taken for a sign of activity.
onPageTimestamp_Restart(d, updateTime) ==
  safeSendMessage([d EXCEPT !.generationStartTime = updateTime,
                            !.cooldownTimer = Null],
                  TimestampMsg(updateTime))

\* The window 'message' listener, for a CHATGPT_NOTIFIER_TIMESTAMP message of
\* the page itself.
onPageTimestamp(d, updateTime) == safeSendMessage(d, TimestampMsg(updateTime))

\* Mutation of reportStateChange: the state is reported whether it is new or not.
reportStateChange_Always(d, newState) ==
  safeSendMessage([d EXCEPT !.currentState = newState],
                  StateChangeMsg(newState, d.generationStartTime))

reportStateChange(d, newState) ==
  IF newState # d.currentState
  THEN safeSendMessage([d EXCEPT !.currentState = newState],
                       StateChangeMsg(newState, d.generationStartTime))
  ELSE d

\* Mutation of detailedState: an empty text that differs counts as writing.
detailedState_AnyChange(generating, thinking, currentAssistantText, d) ==
  IF ~generating
  THEN (IF d.cooldownTimer # Null THEN STATES.COMPLETED ELSE STATES.IDLE)
  ELSE IF thinking THEN STATES.THINKING
  ELSE IF currentAssistantText # d.lastAssistantText THEN STATES.WRITING
  ELSE STATES.GENERATING

\* The body of determineDetailedState, after its three reads of the page.
detailedState(generating, thinking, currentAssistantText, d) ==
  IF ~generating
  THEN (IF d.cooldownTimer # Null THEN STATES.COMPLETED ELSE STATES.IDLE)
  ELSE IF thinking THEN STATES.THINKING
  ELSE IF Len(currentAssistantText) > 0 /\ currentAssistantText # d.lastAssistantText
       THEN STATES.WRITING
  ELSE STATES.GENERATING

determineDetailedState(d) ==
  detailedState(isGenerating, isThinking, getAssistantText, d)

\* Mutation of CooldownDelay: the timer is armed for one poll period.
CooldownDelay_OnePoll(d) == POLL_INTERVAL_MS

CooldownDelay(d) == d.stabilityWindowMs

startCooldown(d) ==
  [cancelCooldown(d) EXCEPT !.cooldownTimer = now + CooldownDelay(d)]

\* Mutation of ObservedStart: the guard is missing.
ObservedStart_NoGuard(d) == TRUE

\* The guard of the true->false branch of checkState.
ObservedStart(d) == Truthy(d.generationStartTime)

\* The true->false branch of checkState.
OnStopEdge(d) == startCooldown(d)

checkState(d) ==
  IF ~d.isMonitoring THEN d
  ELSE LET generating == isGenerating
           d1 == reportStateChange(d, determineDetailedState(d))
           d2 == IF d1.wasGenerating /\ ~generating /\ ObservedStart(d1)
                 THEN OnStopEdge(d1) ELSE d1
           d3 == IF ~d2.wasGenerating /\ generating
                 THEN [cancelCooldown(d2) EXCEPT !.generationStartTime = now]
                 ELSE d2
       IN  [d3 EXCEPT !.wasGenerating = generating,
                      !.lastAssistantText = getAssistantText]

\* Mutation of CompletionDuration: the stability window is subtracted.
CompletionDuration_ExclWindow(d) ==
  IF Truthy(d.generationStartTime)
  THEN now - d.generationStartTime - d.stabilityWindowMs ELSE Null

CompletionDuration(d) ==
  IF Truthy(d.generationStartTime) THEN now - d.generationStartTime ELSE Null

\* Mutation of onGenerationComplete: the start time is not reset.
onGenerationComplete_KeepStart(d) ==
  LET d1 == [d EXCEPT !.cooldownTimer = Null]
      d2 == reportStateChange(d1, STATES.COMPLETED)
      d3 == safeSendMessage(d2, CompleteMsg(getAssistantPreview,
                                            CompletionDuration(d)))
  IN  [d3 EXCEPT !.graceTimers = @ \cup {now + GraceMs}]

\* Mutation of onGenerationComplete: the completion is sent twice.
onGenerationComplete_Twice(d) ==
  LET preview == getAssistantPreview
      duration == CompletionDuration(d)
      d1 == [d EXCEPT !.cooldownTimer = Null, !.generationStartTime = Null]
      d2 == reportStateChange(d1, STATES.COMPLETED)
      d3 == safeSendMessage(d2, CompleteMsg(preview, duration))
      d4 == safeSendMessage(d3, CompleteMsg(preview, duration))
  IN  [d4 EXCEPT !.graceTimers = @ \cup {now + GraceMs}]

\* The callback of the cooldown timer: cooldownTimer = null; onGenerationComplete().
onGenerationComplete(d) ==
  LET preview == getAssistantPreview
      duration == CompletionDuration(d)
      d1 == [d EXCEPT !.cooldownTimer = Null, !.generationStartTime = Null]
      d2 == reportStateChange(d1, STATES.COMPLETED)
      d3 == safeSendMessage(d2, CompleteMsg(preview, duration))
  IN  [d3 EXCEPT !.graceTimers = @ \cup {now + GraceMs}]

\* The callback of the 3000 ms timeout armed by onGenerationComplete.
onGraceTimeout(d) ==
  IF ~isGenerating /\ d.currentState = STATES.COMPLETED
  THEN reportStateChange(d, STATES.IDLE) ELSE d

\* Mutation of startMonitoring: a request is obeyed while monitoring.
startMonitoring_NoGuard(d, windowOpt) ==
  [d EXCEPT !.stabilityWindowMs = IF Truthy(windowOpt) THEN windowOpt ELSE @,
            !.isMonitoring = TRUE,
            !.wasGenerating = isGenerating,
            !.lastAssistantText = getAssistantText,
            !.pollInterval = IF @ = Null THEN now + POLL_INTERVAL_MS ELSE @]

startMonitoring(d, windowOpt) ==
  IF d.isMonitoring THEN d
  ELSE [d EXCEPT !.stabilityWindowMs = IF Truthy(windowOpt) THEN windowOpt ELSE @,
                 !.isMonitoring = TRUE,
                 !.wasGenerating = isGenerating,
                 !.lastAssistantText = getAssistantText,
                 !.pollInterval = IF @ = Null THEN now + POLL_INTERVAL_MS ELSE @]

\* Write the detector's state back.
SetDet(d) ==
  /\ isMonitoring' = d.isMonitoring
  /\ wasGenerating' = d.wasGenerating
  /\ cooldownTimer' = d.cooldownTimer
  /\ pollInterval' = d.pollInterval
  /\ lastAssistantText' = d.lastAssistantText
  /\ generationStartTime' = d.generationStartTime
  /\ stabilityWindowMs' = d.stabilityWindowMs
  /\ currentState' = d.currentState
  /\ graceTimers' = d.graceTimers
  /\ sent' = d.out


(***************************************************************************)
(* background.js as functions on the registry's state r.                   *)
(* r.effects collects what the call chain asks of the browser.             *)
(***************************************************************************)
TabIds == 1..MaxTabs

\* A time stamp written by an earlier run of the service worker.
PastT == Epoch - POLL_INTERVAL_MS

\* JavaScript null / undefined where a state string is expected.
NoState == "null"

VALID_STATES == {"idle", "generating", "thinking", "writing", "completed"}

DEFAULT_SETTINGS ==
  [soundEnabled |-> TRUE, notificationsEnabled |-> TRUE,
   autoEnableEnabled |-> TRUE, stabilityWindowMs |-> DefaultStabilityWindowMs]

\* The map with no keys.
EmptyMap == [t \in {} |-> 0]

MapPut(f, k, v) == [t \in DOMAIN f \cup {k} |-> IF t = k THEN v ELSE f[t]]

MapDel(f, k) == [t \in DOMAIN f \ {k} |-> f[t]]

\* a || b on numbers.
OrElse(a, b) == IF Truthy(a) THEN a ELSE b

normalizeState(value) == IF value \in VALID_STATES THEN value ELSE NoState

normalizeTimestamp(value) == IF value = Null \/ value <= 0 THEN Null ELSE value

\* existingEphemeral = null.
NoEphemeral ==
  [currentState |-> NoState, stateChangedAt |-> Null, lastMessageTime |-> Null,
   generationStartedAt |-> Null]

Reg == [tabsData |-> tabsData, monitoredTabs |-> monitoredTabs, badge |-> badge,
        ephQ |-> ephQ, persistStore |-> persistStore,
        monitoredStore |-> monitoredStore, effects |-> <<>>]

Effect(kind, tabId, arg) == [kind |-> kind, tab |-> tabId, arg |-> arg]

\* The read of an upsert sees the store as it is when the call is made; the
\* write of the whole key follows when the read returns (EphWrite).
upsertEphemeralTabData(r, tabId, patch) ==
  [r EXCEPT !.ephQ = Append(@, MapPut(ephStore, tabId, patch))]

removeEphemeralTabData(r, tabId) ==
  IF tabId \notin DOMAIN ephStore THEN r
  ELSE [r EXCEPT !.ephQ = Append(@, MapDel(ephStore, tabId))]

persistEphemeralFields(r, tabId) ==
  IF tabId \notin DOMAIN r.tabsData THEN r
  ELSE LET tab == r.tabsData[tabId]
       IN  upsertEphemeralTabData(r, tabId,
             [currentState |-> tab.currentState,
              stateChangedAt |-> tab.stateChangedAt,
              lastMessageTime |-> tab.lastMessageTime,
              generationStartedAt |-> tab.generationStartedAt])

\* Mutation of createTabInfo: a record with an unusable field is not used.
createTabInfo_WholeRecord(r, tabId, lastAccessed, existingEphemeral) ==
  LET usable == /\ normalizeState(existingEphemeral.currentState) # NoState
                /\ normalizeTimestamp(existingEphemeral.stateChangedAt) # Null
                /\ normalizeTimestamp(existingEphemeral.lastMessageTime) # Null
                /\ normalizeTimestamp(existingEphemeral.generationStartedAt) # Null
      baseline == OrElse(normalizeTimestamp(lastAccessed), now)
  IN  [isMonitored |-> tabId \in r.monitoredTabs,
       currentState |-> IF usable THEN existingEphemeral.currentState ELSE "idle",
       stateChangedAt |-> IF usable THEN existingEphemeral.stateChangedAt ELSE baseline,
       lastMessageTime |-> IF usable THEN existingEphemeral.lastMessageTime ELSE Null,
       generationStartedAt |->
         IF usable THEN existingEphemeral.generationStartedAt ELSE Null,
       completions |-> <<>>]

createTabInfo(r, tabId, lastAccessed, existingEphemeral) ==
  LET existingState == normalizeState(existingEphemeral.currentState)
      existingStateChangedAt == normalizeTimestamp(existingEphemeral.stateChangedAt)
      existingLastMessageTime == normalizeTimestamp(existingEphemeral.lastMessageTime)
      existingGenerationStartedAt ==
        normalizeTimestamp(existingEphemeral.generationStartedAt)
      baseline == OrElse(normalizeTimestamp(lastAccessed), now)
  IN  [isMonitored |-> tabId \in r.monitoredTabs,
       currentState |-> IF existingState # NoState THEN existingState ELSE "idle",
       stateChangedAt |-> OrElse(existingStateChangedAt, baseline),
       lastMessageTime |-> existingLastMessageTime,
       generationStartedAt |-> existingGenerationStartedAt,
       completions |-> <<>>]

ActiveCountOf(td) ==
  Cardinality({t \in DOMAIN td : td[t].currentState \in ActiveStates})

updateGlobalBadge(r) == [r EXCEPT !.badge = ActiveCountOf(r.tabsData)]

\* Mutation of updateTabState: the equal state is stored again.
updateTabState_NoGuard(r, tabId, state) ==
  IF tabId \in DOMAIN r.tabsData
  THEN persistEphemeralFields(
         updateGlobalBadge(
           [r EXCEPT !.tabsData[tabId].currentState = state,
                     !.tabsData[tabId].stateChangedAt = now]), tabId)
  ELSE r

\* Mutation of updateTabState: the badge is not refreshed.
updateTabState_NoBadge(r, tabId, state) ==
  IF tabId \in DOMAIN r.tabsData /\ r.tabsData[tabId].currentState # state
  THEN persistEphemeralFields(
         [r EXCEPT !.tabsData[tabId].currentState = state,
                   !.tabsData[tabId].stateChangedAt = now], tabId)
  ELSE r

updateTabState(r, tabId, state) ==
  IF tabId \in DOMAIN r.tabsData /\ r.tabsData[tabId].currentState # state
  THEN persistEphemeralFields(
         updateGlobalBadge(
           [r EXCEPT !.tabsData[tabId].currentState = state,
                     !.tabsData[tabId].stateChangedAt = now]), tabId)
  ELSE r

saveTabsData(r) ==
  [r EXCEPT !.persistStore =
     [t \in DOMAIN r.tabsData |->
        [isMonitored |-> r.tabsData[t].isMonitored,
         completions |-> r.tabsData[t].completions]]]

saveMonitoredTabs(r) == [r EXCEPT !.monitoredStore = r.monitoredTabs]

\* Mutation of KeepLast: nothing is dropped.
KeepLast_All(list) == list

\* completions.slice(0, 5) when the list is longer than 5.
KeepLast(list) ==
  IF Len(list) > HistoryMax THEN SubSeq(list, 1, HistoryMax) ELSE list

addCompletion(r, tabId, preview, duration) ==
  IF tabId \notin DOMAIN r.tabsData THEN r
  ELSE LET entry == [timestamp |-> now, duration |-> OrElse(duration, 0),
                     preview |-> preview]
       IN  saveTabsData(
             [r EXCEPT !.tabsData[tabId].completions = KeepLast(<<entry>> \o @)])

\* chrome.notifications.create('chatgpt-done-<tabId>-<Date.now()>', ...).
showNotification(r, preview, tabId, duration) ==
  [r EXCEPT !.effects = Append(@, Effect("notification", tabId, now))]

playSound(r, tabId) == [r EXCEPT !.effects = Append(@, Effect("sound", tabId, now))]

\* onMessage: case 'GENERATION_COMPLETE'.
onGenerationCompleteMsg(r, tabId, message) ==
  LET r1 == updateTabState(r, tabId, "completed")
      r2 == addCompletion(r1, tabId, message.preview, message.duration)
      r3 == IF tabId \in r2.monitoredTabs /\ settings.notificationsEnabled
            THEN showNotification(r2, message.preview, tabId, message.duration)
            ELSE r2
  IN  IF tabId \in r3.monitoredTabs /\ settings.soundEnabled
      THEN playSound(r3, tabId) ELSE r3

\* onMessage: case 'STATE_CHANGE'.
onStateChangeMsg(r, tabId, message) ==
  IF tabId \notin DOMAIN r.tabsData THEN r
  ELSE LET r1 == updateTabState(r, tabId, message.state)
           old == r1.tabsData[tabId].generationStartedAt
           new == IF message.state \in ActiveStates
                  THEN (IF ~Truthy(old)
                        THEN OrElse(message.generationStartTime, now) ELSE old)
                  ELSE Null
       IN  persistEphemeralFields(
             [r1 EXCEPT !.tabsData[tabId].generationStartedAt = new], tabId)

\* onMessage: case 'CONVERSATION_TIMESTAMP'.
onConversationTimestampMsg(r, tabId, updateTime) ==
  IF tabId \notin DOMAIN r.tabsData THEN r
  ELSE persistEphemeralFields(
         [r EXCEPT !.tabsData[tabId].lastMessageTime = updateTime], tabId)

\* toggleMonitoring up to its await.
toggleMonitoring(r, tabId) ==
  IF tabId \in r.monitoredTabs
  THEN LET r1 == [r EXCEPT !.monitoredTabs = @ \ {tabId}]
           r2 == IF tabId \in DOMAIN r1.tabsData
                 THEN saveTabsData([r1 EXCEPT !.tabsData[tabId].isMonitored = FALSE])
                 ELSE r1
       IN  [r2 EXCEPT !.effects = Append(@, Effect("STOP_MONITORING", tabId, Null))]
  ELSE LET r1 == [r EXCEPT !.monitoredTabs = @ \cup {tabId}]
           r2 == IF tabId \in DOMAIN r1.tabsData
                 THEN saveTabsData([r1 EXCEPT !.tabsData[tabId].isMonitored = TRUE])
                 ELSE r1
       IN  [r2 EXCEPT !.effects = Append(@, Effect("START_MONITORING", tabId,
                                                   settings.stabilityWindowMs))]

\* Mutation of forgetTab: the purge is not guarded by tabsData.has(tabId).
forgetTab_NoGuard(r, tabId) ==
  LET r1 == updateGlobalBadge(saveTabsData(removeEphemeralTabData(
              [r EXCEPT !.tabsData = MapDel(@, tabId)], tabId)))
  IN  IF tabId \in r1.monitoredTabs
      THEN saveMonitoredTabs([r1 EXCEPT !.monitoredTabs = @ \ {tabId}])
      ELSE r1

\* tabs.onRemoved, and the navigate-away branch of tabs.onUpdated.
forgetTab(r, tabId) ==
  LET r1 == IF tabId \in DOMAIN r.tabsData
            THEN updateGlobalBadge(saveTabsData(removeEphemeralTabData(
                   [r EXCEPT !.tabsData = MapDel(@, tabId)], tabId)))
            ELSE r
  IN  IF tabId \in r1.monitoredTabs
      THEN saveMonitoredTabs([r1 EXCEPT !.monitoredTabs = @ \ {tabId}])
      ELSE r1

\* tabs.onUpdated with status 'complete' on a ChatGPT url.
onTabComplete(r, tabId, lastAccessed) ==
  LET r1 == IF tabId \notin DOMAIN r.tabsData
            THEN persistEphemeralFields(
                   [r EXCEPT !.tabsData = MapPut(@, tabId,
                      createTabInfo(r, tabId, lastAccessed, NoEphemeral))], tabId)
            ELSE r
  IN  IF settings.autoEnableEnabled /\ tabId \notin r1.monitoredTabs
      THEN LET r2 == [r1 EXCEPT !.monitoredTabs = @ \cup {tabId},
                                !.tabsData[tabId].isMonitored = TRUE]
               r3 == [r2 EXCEPT !.effects = Append(@,
                        Effect("START_MONITORING", tabId, settings.stabilityWindowMs))]
           IN  saveTabsData(saveMonitoredTabs(r3))
      ELSE r1

\* The body of the loop of discoverChatGPTTabs up to its await.
discoverVisit(r, tabId, lastAccessed, ephemeral) ==
  IF tabId \notin DOMAIN r.tabsData
  THEN LET existing == IF tabId \in DOMAIN ephemeral THEN ephemeral[tabId]
                       ELSE NoEphemeral
       IN  persistEphemeralFields(
             [r EXCEPT !.tabsData = MapPut(@, tabId,
                createTabInfo(r, tabId, lastAccessed, existing))], tabId)
  ELSE IF normalizeTimestamp(r.tabsData[tabId].stateChangedAt) = Null
       THEN persistEphemeralFields(
              [r EXCEPT !.tabsData[tabId].stateChangedAt =
                 OrElse(normalizeTimestamp(lastAccessed), now)], tabId)
       ELSE r

\* initializeTabsData after discoverChatGPTTabs has returned.
mergePersisted(r, persisted) ==
  LET td == r.tabsData
  IN  updateGlobalBadge(
        [r EXCEPT !.tabsData =
           [t \in DOMAIN td |->
              IF t \in DOMAIN persisted
              THEN [td[t] EXCEPT !.completions = persisted[t].completions]
              ELSE td[t]]])

\* Write the registry's state back.
SetReg(r) ==
  /\ tabsData' = r.tabsData
  /\ monitoredTabs' = r.monitoredTabs
  /\ badge' = r.badge
  /\ ephQ' = r.ephQ
  /\ persistStore' = r.persistStore
  /\ monitoredStore' = r.monitoredStore
  /\ effects' = r.effects


(***************************************************************************)
(* The registry when the service worker starts.                            *)
(***************************************************************************)
NoComplete == [tab |-> 0, at |-> Null, msg |-> CompleteMsg(<<>>, Null), dup |-> FALSE]

\* Memory of a service worker that has just started.
WorkerStarted ==
  /\ tabsData = EmptyMap
  /\ monitoredTabs = {}
  /\ settings = DEFAULT_SETTINGS
  /\ monLoaded = FALSE
  /\ initPc = "loadPersisted"
  /\ persistedData = EmptyMap
  /\ ephemeralData = EmptyMap
  /\ discTabs = <<>>
  /\ ephQ = <<>>
  /\ pendingToggles = <<>>
  /\ effects = <<>>
  /\ created = {}
  /\ lastComplete = NoComplete
  /\ nComplete = 0
  /\ nEvents = 0
  /\ chan = <<>>
  /\ nSent = 0
  /\ lastApplied = 0

\* A browser with no ChatGPT tab and empty stores (a fresh install).
FreshBrowser ==
  /\ liveTabs = {}
  /\ csState = [t \in TabIds |-> "idle"]
  /\ csArmed = {}
  /\ badge = 0
  /\ ephStore = EmptyMap
  /\ persistStore = EmptyMap
  /\ monitoredStore = {}
  /\ ephAtStart = EmptyMap

RegConstructed == WorkerStarted /\ FreshBrowser

\* What an earlier run stored for a tab that was generating.
GeneratingRecord ==
  [currentState |-> "generating", stateChangedAt |-> PastT,
   lastMessageTime |-> PastT, generationStartedAt |-> PastT]

\* What an earlier run stored for a tab that its discovery found generating:
\* the state came from GET_CONTENT_STATE, which brings no start time.
SyncedRecord == [GeneratingRecord EXCEPT !.generationStartedAt = Null]

\* A full completion history written by an earlier run, newest first.
StoredHistory ==
  [i \in 1..HistoryMax |->
     [timestamp |-> PastT - i, duration |-> POLL_INTERVAL_MS, preview |-> <<"a">>]]

\* The service worker restarts while every tab is generating: tab 1 is
\* monitored and has a full history, the start of the other tabs' generation
\* was not seen.  The badge is kept by the browser.
RestartedBrowser ==
  /\ liveTabs = TabIds
  /\ csState \in [TabIds -> {"generating", "idle"}]
  /\ csArmed = {t \in TabIds : csState[t] = "generating"}
  /\ badge = MaxTabs
  /\ ephStore = [t \in TabIds |-> IF t = 1 THEN GeneratingRecord ELSE SyncedRecord]
  /\ persistStore = [t \in TabIds |->
                       [isMonitored |-> t = 1,
                        completions |-> IF t = 1 THEN StoredHistory ELSE <<>>]]
  /\ monitoredStore = {1}
  /\ ephAtStart = ephStore

(***************************************************************************)
(* The detector's steps.                                                   *)
(***************************************************************************)
DetConstructed ==
  /\ ctxValid = TRUE
  /\ sigGenerating \in BOOLEAN
  /\ sigThinking = FALSE
  /\ sigText \in Texts
  /\ isMonitoring = FALSE
  /\ wasGenerating = FALSE
  /\ cooldownTimer = Null
  /\ pollInterval = Null
  /\ lastAssistantText = <<>>
  /\ generationStartTime = Null
  /\ stabilityWindowMs = DefaultStabilityWindowMs
  /\ currentState = STATES.IDLE
  /\ graceTimers = {}
  /\ sent = <<>>
  /\ edgeObs = "none"
  /\ startEdgeAt = Null
  /\ stopEdgeAt = Null
  /\ lastChangeAt = Null

\* The extension is reloaded or unloaded: the content script's context dies.
CtxInvalidateStep ==
  /\ ctxValid
  /\ ctxValid' = FALSE
  /\ sent' = <<>>
  /\ UNCHANGED <<now, sigGenerating, sigThinking, sigText, isMonitoring,
                 wasGenerating, cooldownTimer, pollInterval, lastAssistantText,
                 generationStartTime, stabilityWindowMs, currentState,
                 graceTimers, edgeObs, startEdgeAt, stopEdgeAt, lastChangeAt>>

\* START_MONITORING from the background, or the page-load resume
\* (GET_TAB_STATE answered isMonitored), which passes no option.
StartMonitoringMsgStep ==
  /\ ctxValid
  /\ \E w \in WindowOptions : SetDet(startMonitoring(Det, w))
  /\ UNCHANGED <<now, ctxValid, sigGenerating, sigThinking, sigText, edgeObs,
                 startEdgeAt, stopEdgeAt, lastChangeAt>>

\* STOP_MONITORING from the background.
StopMonitoringMsgStep ==
  /\ ctxValid
  /\ SetDet(stopMonitoring(Det))
  /\ UNCHANGED <<now, ctxValid, sigGenerating, sigThinking, sigText, edgeObs,
                 startEdgeAt, stopEdgeAt, lastChangeAt>>

\* The fetch interceptor of the page posts the time stamp of a conversation,
\* which the server set some time ago.
PageTimestampStep ==
  /\ SetDet(onPageTimestamp(Det, Epoch - POLL_INTERVAL_MS))
  /\ UNCHANGED <<now, ctxValid, sigGenerating, sigThinking, sigText, edgeObs,
                 startEdgeAt, stopEdgeAt, lastChangeAt>>

\* One setInterval tick: checkState().
PollTickStep ==
  /\ pollInterval = now
  /\ LET d == checkState(Det)
         startEdge == isMonitoring /\ ~wasGenerating /\ isGenerating
         stopEdge == isMonitoring /\ wasGenerating /\ ~isGenerating
         changed == isMonitoring /\ getAssistantText # lastAssistantText
     IN  /\ SetDet([d EXCEPT !.pollInterval =
                       IF @ = Null THEN Null ELSE now + POLL_INTERVAL_MS])
         /\ edgeObs' = IF startEdge THEN "start"
                       ELSE IF stopEdge /\ edgeObs = "start" THEN "stop"
                       ELSE edgeObs
         /\ startEdgeAt' = IF startEdge THEN now ELSE startEdgeAt
         /\ stopEdgeAt' = IF stopEdge THEN now ELSE stopEdgeAt
         /\ lastChangeAt' = IF changed THEN now ELSE lastChangeAt
  /\ UNCHANGED <<now, ctxValid, sigGenerating, sigThinking, sigText>>

\* The cooldown timer expires: onGenerationComplete().
CooldownFireStep ==
  /\ cooldownTimer = now
  /\ SetDet(onGenerationComplete(Det))
  /\ edgeObs' = IF edgeObs = "stop" THEN "fired" ELSE "cold"
  /\ UNCHANGED <<now, ctxValid, sigGenerating, sigThinking, sigText,
                 startEdgeAt, stopEdgeAt, lastChangeAt>>

\* One of the 3000 ms timeouts expires.
GraceFireStep ==
  /\ now \in graceTimers
  /\ SetDet(onGraceTimeout([Det EXCEPT !.graceTimers = @ \ {now}]))
  /\ UNCHANGED <<now, ctxValid, sigGenerating, sigThinking, sigText, edgeObs,
                 startEdgeAt, stopEdgeAt, lastChangeAt>>

\* A poll period passes, once every timer due now has run; the page may
\* change meanwhile (the Stop button, the Answer-now button, the text).
AdvanceStep ==
  /\ pollInterval # now
  /\ cooldownTimer # now
  /\ now \notin graceTimers
  /\ now + POLL_INTERVAL_MS <= Epoch + MaxTicks * POLL_INTERVAL_MS
  /\ now' = now + POLL_INTERVAL_MS
  /\ \E g \in BOOLEAN, th \in BOOLEAN, t \in Texts :
       /\ th => g
       /\ sigGenerating' = g
       /\ sigThinking' = th
       /\ sigText' = t
  /\ sent' = <<>>
  /\ startEdgeAt' = IF generationStartTime = Null THEN Null ELSE startEdgeAt
  /\ stopEdgeAt' = IF cooldownTimer = Null THEN Null ELSE stopEdgeAt
  /\ lastChangeAt' = IF now' - lastChangeAt > DefaultStabilityWindowMs
                     THEN Null ELSE lastChangeAt
  /\ UNCHANGED <<ctxValid, isMonitoring, wasGenerating, cooldownTimer,
                 pollInterval, lastAssistantText, generationStartTime,
                 stabilityWindowMs, currentState, graceTimers, edgeObs>>

\* The detector alone: each step leaves the background as it is.
CtxInvalidate == UNCHANGED regVars /\ CtxInvalidateStep

StartMonitoringMsg == UNCHANGED regVars /\ StartMonitoringMsgStep

StopMonitoringMsg == UNCHANGED regVars /\ StopMonitoringMsgStep

PollTick == UNCHANGED regVars /\ PollTickStep

CooldownFire == UNCHANGED regVars /\ CooldownFireStep

GraceFire == UNCHANGED regVars /\ GraceFireStep

Advance == UNCHANGED regVars /\ AdvanceStep

DetNext ==
  \/ CtxInvalidate
  \/ StartMonitoringMsg
  \/ StopMonitoringMsg
  \/ PollTick
  \/ CooldownFire
  \/ GraceFire
  \/ Advance

DetInit == now = Epoch /\ DetConstructed /\ RegConstructed

DetSpec == DetInit /\ [][DetNext]_vars


\* The browser runs every timer callback that is due, and time passes.
\* Messages from the background and the loss of the context come when
\* they come.
DetFairSpec ==
  /\ DetSpec
  /\ WF_vars(PollTick)
  /\ WF_vars(CooldownFire)
  /\ WF_vars(GraceFire)
  /\ WF_vars(Advance)

(***************************************************************************)
(* The registry's steps.                                                   *)
(***************************************************************************)
\* tab.lastAccessed as the browser reports it.
LastAccessedValues == {Null, PastT}

\* generationStartTime values a STATE_CHANGE can carry.
MsgStartTimes == {Null, Epoch}

\* A handler may queue two ephemeral writes.
EphQHasRoom == Len(ephQ) + 2 <= MaxEphQ

RegInit ==
  /\ now = Epoch
  /\ DetConstructed /\ ~sigGenerating /\ sigText = <<>>
  /\ WorkerStarted
  /\ FreshBrowser \/ RestartedBrowser

\* The background's clock moves on by a millisecond.
RegClock ==
  /\ now < Epoch + MaxRegClock
  /\ now' = now + 1
  /\ effects' = <<>>
  /\ UNCHANGED <<linkVars, detState, liveTabs, csState, csArmed, badge, ephStore,
                 persistStore, monitoredStore, tabsData, monitoredTabs, settings,
                 monLoaded, initPc, persistedData, ephemeralData, discTabs, ephQ,
                 pendingToggles, ephAtStart, created, lastComplete, nComplete, nEvents>>

\* chrome.storage.local.get(['monitoredTabs'], callback).
LoadMonitoredTabs ==
  /\ ~monLoaded
  /\ monLoaded' = TRUE
  /\ monitoredTabs' = monitoredTabs \cup monitoredStore
  /\ effects' = <<>>
  /\ UNCHANGED <<linkVars, detVars, liveTabs, csState, csArmed, badge, ephStore,
                 persistStore, monitoredStore, tabsData, settings, initPc,
                 persistedData, ephemeralData, discTabs, ephQ, pendingToggles,
                 ephAtStart, created, lastComplete, nComplete, nEvents>>

\* The read of the oldest waiting upsert/remove returns: it writes the key.
EphWrite ==
  /\ ephQ # <<>>
  /\ ephStore' = Head(ephQ)
  /\ ephQ' = Tail(ephQ)
  /\ effects' = <<>>
  /\ UNCHANGED <<linkVars, detVars, liveTabs, csState, csArmed, badge, persistStore,
                 monitoredStore, tabsData, monitoredTabs, settings, monLoaded,
                 initPc, persistedData, ephemeralData, discTabs, pendingToggles,
                 ephAtStart, created, lastComplete, nComplete, nEvents>>

\* initializeTabsData: await loadPersistedTabsData().
InitLoadPersisted ==
  /\ initPc = "loadPersisted"
  /\ persistedData' = persistStore
  /\ initPc' = "loadEphemeral"
  /\ effects' = <<>>
  /\ UNCHANGED <<linkVars, detVars, liveTabs, csState, csArmed, badge, ephStore,
                 persistStore, monitoredStore, tabsData, monitoredTabs, settings,
                 monLoaded, ephemeralData, discTabs, ephQ, pendingToggles,
                 ephAtStart, created, lastComplete, nComplete, nEvents>>

\* initializeTabsData: await loadEphemeralTabsData().
InitLoadEphemeral ==
  /\ initPc = "loadEphemeral"
  /\ ephemeralData' = ephStore
  /\ initPc' = "query"
  /\ effects' = <<>>
  /\ UNCHANGED <<linkVars, detVars, liveTabs, csState, csArmed, badge, ephStore,
                 persistStore, monitoredStore, tabsData, monitoredTabs, settings,
                 monLoaded, persistedData, discTabs, ephQ, pendingToggles,
                 ephAtStart, created, lastComplete, nComplete, nEvents>>

\* The tabs of a set, by ascending id.
RECURSIVE TabsInOrder(_)
TabsInOrder(S) ==
  IF S = {} THEN <<>>
  ELSE LET m == CHOOSE x \in S : \A y \in S : x <= y
       IN  <<m>> \o TabsInOrder(S \ {m})

\* discoverChatGPTTabs from a point where it resumes: visit the tabs left up
\* to the next await, or, with none left, return to initializeTabsData, which
\* merges the persisted completions and refreshes the badge.
DiscoverResume(r, tabs) ==
  IF tabs = <<>>
  THEN /\ SetReg(mergePersisted(r, persistedData))
       /\ initPc' = "done"
       /\ discTabs' = <<>>
       /\ created' = created
  ELSE /\ \E la \in LastAccessedValues :
            SetReg(discoverVisit(r, Head(tabs), la, ephemeralData))
       /\ initPc' = "awaitContent"
       /\ discTabs' = tabs
       /\ created' = created \cup {Head(tabs)}

\* discoverChatGPTTabs: await chrome.tabs.query(...) returns.
InitQuery ==
  /\ initPc = "query"
  /\ EphQHasRoom
  /\ DiscoverResume(Reg, TabsInOrder(liveTabs))
  /\ UNCHANGED <<linkVars, detVars, liveTabs, csState, csArmed, ephStore, monitoredTabs,
                 settings, monLoaded, persistedData, ephemeralData,
                 pendingToggles, ephAtStart, lastComplete, nComplete, nEvents>>

\* discoverChatGPTTabs: await chrome.tabs.sendMessage(GET_CONTENT_STATE)
\* returns the content script's state, or throws.
InitContentReply ==
  /\ initPc = "awaitContent"
  /\ EphQHasRoom
  /\ \E ok \in BOOLEAN :
       /\ ok => Head(discTabs) \in liveTabs
       /\ LET r == IF ok THEN updateTabState(Reg, Head(discTabs),
                                             csState[Head(discTabs)])
                   ELSE Reg
          IN  DiscoverResume([r EXCEPT !.effects = <<>>], Tail(discTabs))
  /\ UNCHANGED <<linkVars, detVars, liveTabs, csState, csArmed, ephStore, monitoredTabs,
                 settings, monLoaded, persistedData, ephemeralData,
                 pendingToggles, ephAtStart, lastComplete, nComplete, nEvents>>

\* A tab finishes loading ChatGPT (opened, navigated to it, or reloaded, which
\* starts a new content script): tabs.onUpdated with status 'complete'.
TabLoaded ==
  /\ nEvents < MaxEvents
  /\ nEvents' = nEvents + 1
  /\ EphQHasRoom
  /\ \E t \in TabIds, la \in LastAccessedValues, fresh \in BOOLEAN :
       /\ t \notin liveTabs => fresh
       /\ liveTabs' = liveTabs \cup {t}
       /\ csState' = IF fresh THEN [csState EXCEPT ![t] = "idle"] ELSE csState
       /\ csArmed' = IF fresh THEN csArmed \ {t} ELSE csArmed
       /\ SetReg(onTabComplete(Reg, t, la))
       /\ created' = created \cup {t}
  /\ UNCHANGED <<linkVars, detVars, ephStore, settings, monLoaded, initPc, persistedData,
                 ephemeralData, discTabs, pendingToggles, ephAtStart,
                 lastComplete, nComplete>>

\* A tab is closed (tabs.onRemoved) or leaves ChatGPT (tabs.onUpdated with a
\* url that is not ChatGPT's).
TabGone ==
  /\ nEvents < MaxEvents
  /\ nEvents' = nEvents + 1
  /\ EphQHasRoom
  /\ \E t \in TabIds :
       /\ liveTabs' = liveTabs \ {t}
       /\ csState' = [csState EXCEPT ![t] = "idle"]
       /\ csArmed' = csArmed \ {t}
       /\ SetReg(forgetTab(Reg, t))
       /\ ephAtStart' = MapDel(ephAtStart, t)
  /\ UNCHANGED <<linkVars, detVars, ephStore, settings, monLoaded, initPc, persistedData,
                 ephemeralData, discTabs, pendingToggles, created,
                 lastComplete, nComplete>>

\* A content script reports a new state: STATE_CHANGE.
CsStateChange ==
  /\ nEvents < MaxEvents
  /\ nEvents' = nEvents + 1
  /\ EphQHasRoom
  /\ \E t \in liveTabs, s \in VALID_STATES, gst \in MsgStartTimes :
       /\ s # csState[t]
       /\ csState' = [csState EXCEPT ![t] = s]
       /\ csArmed' = IF s \in ActiveStates THEN csArmed \cup {t} ELSE csArmed
       /\ SetReg(onStateChangeMsg(Reg, t, StateChangeMsg(s, gst)))
  /\ UNCHANGED <<linkVars, detVars, liveTabs, ephStore, settings, monLoaded, initPc,
                 persistedData, ephemeralData, discTabs, pendingToggles,
                 ephAtStart, created, lastComplete, nComplete>>

\* Durations a GENERATION_COMPLETE can carry.
MsgDurations == {Null, 5 * POLL_INTERVAL_MS}

\* A content script whose cooldown has expired, and which has reported
\* Completed, sends GENERATION_COMPLETE.
CsComplete ==
  /\ nEvents < MaxEvents
  /\ nEvents' = nEvents + 1
  /\ EphQHasRoom
  /\ \E t \in liveTabs \cap csArmed, dur \in MsgDurations :
       /\ csState[t] = "completed"
       /\ csArmed' = csArmed \ {t}
       /\ SetReg(onGenerationCompleteMsg(Reg, t, CompleteMsg(<<"a">>, dur)))
       /\ lastComplete' = [tab |-> t, at |-> now,
                           msg |-> CompleteMsg(<<"a">>, dur), dup |-> FALSE]
  /\ nComplete' = nComplete + 1
  /\ UNCHANGED <<linkVars, detVars, liveTabs, csState, ephStore, settings, monLoaded,
                 initPc, persistedData, ephemeralData, discTabs, pendingToggles,
                 ephAtStart, created>>

\* The fetch interceptor of a tab posts a time stamp: CONVERSATION_TIMESTAMP.
CsTimestamp ==
  /\ nEvents < MaxEvents
  /\ nEvents' = nEvents + 1
  /\ EphQHasRoom
  /\ \E t \in liveTabs : SetReg(onConversationTimestampMsg(Reg, t, now))
  /\ UNCHANGED <<linkVars, detVars, liveTabs, csState, csArmed, ephStore, settings,
                 monLoaded, initPc, persistedData, ephemeralData, discTabs,
                 pendingToggles, ephAtStart, created, lastComplete, nComplete>>

\* The popup asks TOGGLE_MONITORING: toggleMonitoring runs up to its await.
ToggleStart ==
  /\ nEvents < MaxEvents
  /\ nEvents' = nEvents + 1
  /\ Len(pendingToggles) < MaxPendingToggles
  /\ \E t \in TabIds :
       /\ SetReg(toggleMonitoring(Reg, t))
       /\ pendingToggles' = Append(pendingToggles,
                                   [tab |-> t, isMonitored |-> t \notin monitoredTabs])
  /\ UNCHANGED <<linkVars, detVars, liveTabs, csState, csArmed, ephStore, settings,
                 monLoaded, initPc, persistedData, ephemeralData, discTabs,
                 ephAtStart, created, lastComplete, nComplete>>

\* The content script has answered (or the send has failed): toggleMonitoring
\* saves monitoredTabs and returns { isMonitored }.
ToggleFinish ==
  /\ pendingToggles # <<>>
  /\ LET p == Head(pendingToggles)
         r == saveMonitoredTabs(Reg)
     IN  SetReg([r EXCEPT !.effects =
                   <<Effect(IF p.isMonitored THEN "RETURN_MONITORED"
                            ELSE "RETURN_UNMONITORED", p.tab, Null)>>])
  /\ pendingToggles' = Tail(pendingToggles)
  /\ UNCHANGED <<linkVars, detVars, liveTabs, csState, csArmed, ephStore, settings,
                 monLoaded, initPc, persistedData, ephemeralData, discTabs,
                 ephAtStart, created, lastComplete, nComplete, nEvents>>

\* The channel delivers the last GENERATION_COMPLETE a second time.
RedeliverComplete ==
  /\ EphQHasRoom
  /\ lastComplete.at # Null
  /\ ~lastComplete.dup
  /\ now - lastComplete.at <= 1
  /\ SetReg(onGenerationCompleteMsg(Reg, lastComplete.tab, lastComplete.msg))
  /\ lastComplete' = [lastComplete EXCEPT !.dup = TRUE]
  /\ nComplete' = nComplete + 1
  /\ UNCHANGED <<linkVars, detVars, liveTabs, csState, csArmed, ephStore, settings,
                 monLoaded, initPc, persistedData, ephemeralData, discTabs,
                 pendingToggles, ephAtStart, created, nEvents>>

RegNext ==
  \/ RegClock
  \/ LoadMonitoredTabs
  \/ EphWrite
  \/ InitLoadPersisted
  \/ InitLoadEphemeral
  \/ InitQuery
  \/ InitContentReply
  \/ TabLoaded
  \/ TabGone
  \/ CsStateChange
  \/ CsComplete
  \/ CsTimestamp
  \/ ToggleStart
  \/ ToggleFinish

RegSpec == RegInit /\ [][RegNext]_vars

\* The registry on a channel that may deliver a completion twice.
DupNext == RegNext \/ RedeliverComplete

DupSpec == RegInit /\ [][DupNext]_vars


(***************************************************************************)
(* The content script of one tab and the background together: what the     *)
(* script sends travels on a channel and is handled by the onMessage       *)
(* listener, one message at a time.                                        *)
(***************************************************************************)
\* The tab whose content script is followed.
LinkTab == 1

\* The background once its startup is over on a fresh browser in which
\* LinkTab has finished loading: its session exists and is auto-monitored.
WorkerRunning ==
  /\ tabsData = [t \in {LinkTab} |->
                   [isMonitored |-> TRUE, currentState |-> "idle",
                    stateChangedAt |-> PastT, lastMessageTime |-> Null,
                    generationStartedAt |-> Null, completions |-> <<>>]]
  /\ monitoredTabs = {LinkTab}
  /\ settings = DEFAULT_SETTINGS
  /\ monLoaded = TRUE
  /\ initPc = "done"
  /\ persistedData = EmptyMap
  /\ ephemeralData = EmptyMap
  /\ discTabs = <<>>
  /\ ephQ = <<>>
  /\ pendingToggles = <<>>
  /\ effects = <<>>
  /\ created = {LinkTab}
  /\ lastComplete = NoComplete
  /\ nComplete = 0
  /\ nEvents = 0
  /\ liveTabs = {LinkTab}
  /\ csState = [t \in TabIds |-> "idle"]
  /\ csArmed = {}
  /\ badge = 0
  /\ ephStore = [t \in {LinkTab} |->
                   [currentState |-> "idle", stateChangedAt |-> PastT,
                    lastMessageTime |-> Null, generationStartedAt |-> Null]]
  /\ persistStore = [t \in {LinkTab} |-> [isMonitored |-> TRUE, completions |-> <<>>]]
  /\ monitoredStore = {LinkTab}
  /\ ephAtStart = EmptyMap
  /\ chan = <<>>
  /\ nSent = 0
  /\ lastApplied = 0

LinkInit == now = Epoch /\ DetConstructed /\ WorkerRunning

\* chrome.runtime.sendMessage: the messages of a step join the channel in the
\* order they were sent.
Emit(msgs) ==
  /\ chan' = chan \o [i \in 1..Len(msgs) |-> [msg |-> msgs[i], seq |-> nSent + i]]
  /\ nSent' = nSent + Len(msgs)

\* A step of the content script may send two messages.
ChanHasRoom == Len(chan) + 2 <= MaxInFlight

\* What a step of the content script sends joins the channel; the step
\* leaves the background as it is.
Sends == Emit(sent') /\ UNCHANGED <<bgVars, lastApplied>>

LinkStart == ChanHasRoom /\ StartMonitoringMsgStep /\ Sends

LinkTick == ChanHasRoom /\ PollTickStep /\ Sends

LinkCooldownFire == ChanHasRoom /\ CooldownFireStep /\ Sends

LinkGraceFire == ChanHasRoom /\ GraceFireStep /\ Sends

\* Time passes on a page where only the Stop button comes and goes.
LinkAdvance ==
  /\ ChanHasRoom
  /\ AdvanceStep
  /\ ~sigThinking'
  /\ sigText' = <<>>
  /\ Sends

\* Mutation of NextInFlight: the newest message is handled first.
NextInFlight_Newest(c) == Len(c)

\* The message the onMessage listener is called with next: the oldest.
NextInFlight(c) == 1

\* The cases of the onMessage listener for what a content script reports.
onMessage(r, tabId, message) ==
  IF message.type = "GENERATION_COMPLETE"
  THEN onGenerationCompleteMsg(r, tabId, message)
  ELSE IF message.type = "CONVERSATION_TIMESTAMP"
  THEN onConversationTimestampMsg(r, tabId, message.updateTime)
  ELSE onStateChangeMsg(r, tabId, message)

\* The onMessage listener runs for a message of the channel.
Deliver ==
  /\ chan # <<>>
  /\ EphQHasRoom
  /\ LET i == NextInFlight(chan)
         m == chan[i]
         complete == m.msg.type = "GENERATION_COMPLETE"
     IN  /\ SetReg(onMessage(Reg, LinkTab, m.msg))
         /\ chan' = SubSeq(chan, 1, i - 1) \o SubSeq(chan, i + 1, Len(chan))
         /\ lastApplied' = m.seq
         /\ nComplete' = IF complete THEN nComplete + 1 ELSE nComplete
         /\ lastComplete' = IF complete
                            THEN [tab |-> LinkTab, at |-> now, msg |-> m.msg,
                                  dup |-> FALSE]
                            ELSE lastComplete
  /\ UNCHANGED <<detVars, liveTabs, csState, csArmed, ephStore, settings,
                 monLoaded, initPc, persistedData, ephemeralData, discTabs,
                 pendingToggles, ephAtStart, created, nEvents, nSent>>

LinkNext ==
  \/ LinkStart
  \/ LinkTick
  \/ LinkCooldownFire
  \/ LinkGraceFire
  \/ LinkAdvance
  \/ Deliver
  \/ EphWrite

LinkSpec == LinkInit /\ [][LinkNext]_vars

(***************************************************************************)
(* The content script and the background together, on a page whose fetch   *)
(* interceptor posts time stamps, in an extension that may be reloaded.    *)
(***************************************************************************)
\* The page posts a time stamp: the content script forwards it.
StampPosted ==
  /\ nEvents < MaxEvents
  /\ nEvents' = nEvents + 1
  /\ ChanHasRoom
  /\ PageTimestampStep
  /\ Emit(sent')
  /\ UNCHANGED <<liveTabs, csState, csArmed, badge, ephStore, persistStore,
                 monitoredStore, tabsData, monitoredTabs, settings, monLoaded,
                 initPc, persistedData, ephemeralData, discTabs, ephQ,
                 pendingToggles, effects, ephAtStart, created, lastComplete,
                 nComplete, lastApplied>>

\* The extension is reloaded under the page.
StampCtxInvalidate == CtxInvalidateStep /\ Sends

\* Time passes, up to the expiry of the first stability timer.
StampAdvance ==
  /\ now + POLL_INTERVAL_MS <= Epoch + MaxStampTicks * POLL_INTERVAL_MS
  /\ LinkAdvance

StampNext ==
  \/ LinkStart
  \/ LinkTick
  \/ LinkCooldownFire
  \/ StampAdvance
  \/ Deliver
  \/ EphWrite
  \/ StampPosted
  \/ StampCtxInvalidate

StampSpec == LinkInit /\ [][StampNext]_vars

(***************************************************************************)
(* The startup of the service worker over a stored ephemeral record whose  *)
(* fields may each be unusable.                                            *)
(***************************************************************************)
\* currentState values that can be found in the store: two recognised ones,
\* none, and one that is not recognised.
StoredStates == {"generating", "completed", NoState, "paused"}

\* Time stamps that can be found in the store: none, zero, and a good one that
\* is not the tab's lastAccessed.
StoredTimes == {Null, 0, PastT - 1}

StoredRecords ==
  [currentState : StoredStates, stateChangedAt : StoredTimes,
   lastMessageTime : StoredTimes, generationStartedAt : StoredTimes]

\* The service worker starts with one ChatGPT tab open and any record for it.
RestoreInit ==
  /\ now = Epoch
  /\ DetConstructed /\ ~sigGenerating /\ sigText = <<>>
  /\ WorkerStarted
  /\ liveTabs = {LinkTab}
  /\ csState = [t \in TabIds |-> "idle"]
  /\ csArmed = {}
  /\ badge = 0
  /\ ephStore \in [{LinkTab} -> StoredRecords]
  /\ persistStore = [t \in {LinkTab} |-> [isMonitored |-> TRUE, completions |-> <<>>]]
  /\ monitoredStore = {LinkTab}
  /\ ephAtStart = ephStore

RestoreNext ==
  \/ LoadMonitoredTabs
  \/ EphWrite
  \/ InitLoadPersisted
  \/ InitLoadEphemeral
  \/ InitQuery
  \/ InitContentReply

RestoreSpec == RestoreInit /\ [][RestoreNext]_vars

(***************************************************************************)
(* The registry beside tabs whose url only contains the name of a ChatGPT  *)
(* host: isChatGPTUrl accepts them, the match patterns of chrome.tabs.query *)
(* do not, and the extension activates on the hosts only.  liveTabs are    *)
(* the tabs on the hosts.                                                  *)
(***************************************************************************)
\* A tab finishes loading a url that contains 'chatgpt.com' on another host:
\* tabs.onUpdated with status 'complete'.  A content script the tab had is
\* gone.
TabLoadedOffHost ==
  /\ nEvents < MaxEvents
  /\ nEvents' = nEvents + 1
  /\ EphQHasRoom
  /\ \E t \in TabIds, la \in LastAccessedValues :
       /\ liveTabs' = liveTabs \ {t}
       /\ csState' = [csState EXCEPT ![t] = "idle"]
       /\ csArmed' = csArmed \ {t}
       /\ SetReg(onTabComplete(Reg, t, la))
       /\ created' = created \cup {t}
  /\ UNCHANGED <<linkVars, detVars, ephStore, settings, monLoaded, initPc, persistedData,
                 ephemeralData, discTabs, pendingToggles, ephAtStart,
                 lastComplete, nComplete>>

EnumNext == RegNext \/ TabLoadedOffHost

EnumSpec == RegInit /\ [][EnumNext]_vars

(***************************************************************************)
(* The content script and the background across page loads, popup toggles  *)
(* and changes of the settings.                                            *)
(***************************************************************************)
\* stabilityWindowMs values the settings can hold.
SettingWindows == {2 * POLL_INTERVAL_MS, DefaultStabilityWindowMs}

\* The variables of a content script that has just been injected.
NewDet ==
  [isMonitoring |-> FALSE, wasGenerating |-> FALSE, cooldownTimer |-> Null,
   pollInterval |-> Null, lastAssistantText |-> <<>>,
   generationStartTime |-> Null,
   stabilityWindowMs |-> DefaultStabilityWindowMs,
   currentState |-> STATES.IDLE, graceTimers |-> {}, out |-> <<>>]

\* chrome.tabs.sendMessage(LinkTab, { type: kind, ... }) is among the effects.
Asked(eff, kind) == \E i \in DOMAIN eff : eff[i].kind = kind /\ eff[i].tab = LinkTab

\* The popup saves the settings with another stability window.
SettingsSaved ==
  /\ \E w \in SettingWindows \ {settings.stabilityWindowMs} :
       settings' = [settings EXCEPT !.stabilityWindowMs = w]
  /\ effects' = <<>>
  /\ UNCHANGED <<detVars, linkVars, liveTabs, csState, csArmed, badge, ephStore,
                 persistStore, monitoredStore, tabsData, monitoredTabs,
                 monLoaded, initPc, persistedData, ephemeralData, discTabs,
                 ephQ, pendingToggles, ephAtStart, created, lastComplete,
                 nComplete, nEvents>>

\* The page of the tab is loaded again and shows the same conversation:
\* tabs.onUpdated runs with status 'complete', and a new content script asks
\* GET_TAB_STATE and starts monitoring if the answer is isMonitored.  The
\* answer and a START_MONITORING of the auto-enable arrive in either order.
ResumeOnLoad ==
  /\ nEvents < MaxEvents
  /\ nEvents' = nEvents + 1
  /\ EphQHasRoom
  /\ ChanHasRoom
  /\ \E la \in LastAccessedValues, answerFirst \in BOOLEAN :
       LET r == onTabComplete(Reg, LinkTab, la)
           resumed(d) == IF LinkTab \in r.monitoredTabs
                         THEN startMonitoring(d, Null) ELSE d
           requested(d) == IF Asked(r.effects, "START_MONITORING")
                           THEN startMonitoring(d, settings.stabilityWindowMs)
                           ELSE d
       IN  /\ SetReg(r)
           /\ SetDet(IF answerFirst THEN requested(resumed(NewDet))
                     ELSE resumed(requested(NewDet)))
  /\ ctxValid' = TRUE
  /\ edgeObs' = "none"
  /\ startEdgeAt' = Null
  /\ stopEdgeAt' = Null
  /\ lastChangeAt' = Null
  /\ Emit(sent')
  /\ UNCHANGED <<now, sigGenerating, sigThinking, sigText, liveTabs, csState,
                 csArmed, ephStore, settings, monLoaded, initPc, persistedData,
                 ephemeralData, discTabs, pendingToggles, ephAtStart, created,
                 lastComplete, nComplete, lastApplied>>

\* The user toggles the monitoring of the tab in the popup: toggleMonitoring
\* runs, and the content script obeys the START_MONITORING or STOP_MONITORING
\* it sends.
ResumeToggle ==
  /\ nEvents < MaxEvents
  /\ nEvents' = nEvents + 1
  /\ ctxValid
  /\ ChanHasRoom
  /\ LET r == saveMonitoredTabs(toggleMonitoring(Reg, LinkTab))
     IN  /\ SetReg(r)
         /\ SetDet(IF Asked(r.effects, "START_MONITORING")
                   THEN startMonitoring(Det, settings.stabilityWindowMs)
                   ELSE stopMonitoring(Det))
  /\ Emit(sent')
  /\ UNCHANGED <<now, ctxValid, sigGenerating, sigThinking, sigText, edgeObs,
                 startEdgeAt, stopEdgeAt, lastChangeAt, liveTabs, csState,
                 csArmed, ephStore, settings, monLoaded, initPc, persistedData,
                 ephemeralData, discTabs, pendingToggles, ephAtStart, created,
                 lastComplete, nComplete, lastApplied>>

ResumeNext ==
  \/ SettingsSaved
  \/ ResumeOnLoad
  \/ ResumeToggle
  \/ LinkTick
  \/ LinkCooldownFire
  \/ StampAdvance
  \/ Deliver
  \/ EphWrite

ResumeSpec == LinkInit /\ [][ResumeNext]_vars

(***************************************************************************)
(* The detector with the edges counted from the last start of monitoring:  *)
(* edgeObs, startEdgeAt and stopEdgeAt forget what was observed before.    *)
(***************************************************************************)
\* START_MONITORING, or the page-load resume, reaches a detector that is not
\* monitoring.
RestartStep ==
  /\ ctxValid
  /\ ~isMonitoring
  /\ \E w \in WindowOptions : SetDet(startMonitoring(Det, w))
  /\ edgeObs' = "none"
  /\ startEdgeAt' = Null
  /\ stopEdgeAt' = Null
  /\ UNCHANGED <<now, ctxValid, sigGenerating, sigThinking, sigText, lastChangeAt>>

RestartMonitoring == UNCHANGED regVars /\ RestartStep

RestartNext ==
  \/ CtxInvalidate
  \/ RestartMonitoring
  \/ StopMonitoringMsg
  \/ PollTick
  \/ CooldownFire
  \/ GraceFire
  \/ Advance

RestartSpec == DetInit /\ [][RestartNext]_vars
(***************************************************************************)
(* Properties of the detector.                                             *)
(***************************************************************************)
\* The last step sent a GENERATION_COMPLETE (a CompletionEvent was emitted).
JustCompleted == \E i \in DOMAIN sent : sent[i].type = "GENERATION_COMPLETE"

\* The duration that GENERATION_COMPLETE carries.
SentDuration ==
  LET i == CHOOSE j \in DOMAIN sent : sent[j].type = "GENERATION_COMPLETE"
  IN  sent[i].duration

\* An inactive->active edge was observed and no completion has fired since.
EdgePending == edgeObs \in {"start", "stop"}

\* C1 (as claimed): a completion is emitted only when no tick has seen the
\* assistant text change during the last stabilityWindowMs.
C1_CompletionOnlyAfterQuietWindow ==
  JustCompleted => (lastChangeAt = Null \/ now - lastChangeAt >= stabilityWindowMs)

\* C2: a completion is emitted, and the cooldown timer is pending, only after an
\* observed true->false edge that followed an observed false->true edge; a
\* true->false edge with no recorded start arms no timer.
C2_CompletionNeedsObservedEdges ==
  /\ JustCompleted => edgeObs = "fired"
  /\ cooldownTimer # Null => edgeObs = "stop"

C2_Witness == JustCompleted /\ edgeObs = "fired" /\ startEdgeAt < stopEdgeAt

\* C4: with no text change seen after the true->false edge, the completion is
\* emitted exactly stabilityWindowMs after the tick that observed the edge,
\* and a pending timer is due at exactly that time (so not earlier).
C4_FiresWindowAfterEdge ==
  /\ (JustCompleted /\ (lastChangeAt = Null \/ lastChangeAt <= stopEdgeAt))
       => now = stopEdgeAt + stabilityWindowMs
  /\ cooldownTimer # Null => cooldownTimer = stopEdgeAt + stabilityWindowMs

\* Scenario B: start seen at t, edge at t+1000, window 1500, fired at t+2500.
C4_Witness ==
  /\ JustCompleted
  /\ stabilityWindowMs = DefaultStabilityWindowMs
  /\ stopEdgeAt = startEdgeAt + 2 * POLL_INTERVAL_MS
  /\ lastChangeAt = Null
  /\ now = startEdgeAt + 5 * POLL_INTERVAL_MS

\* C5 (as claimed): the duration of a completion is the time from the observed
\* start to the observed true->false edge.
C5_DurationIsStartToEdge ==
  JustCompleted => SentDuration = stopEdgeAt - startEdgeAt

\* C5 (amended): the duration of a completion is the time from the observed
\* start to the expiry of the timer: start-to-edge plus the stability window.
C5_DurationIsStartToFire ==
  JustCompleted =>
    /\ SentDuration = now - startEdgeAt
    /\ SentDuration = (stopEdgeAt - startEdgeAt) + stabilityWindowMs

\* Scenario B again: the duration sent is 2500, not 1000.
C5_Witness ==
  /\ JustCompleted
  /\ stabilityWindowMs = DefaultStabilityWindowMs
  /\ stopEdgeAt = startEdgeAt + 2 * POLL_INTERVAL_MS
  /\ SentDuration = 5 * POLL_INTERVAL_MS

\* C6 (as claimed): generationStartTime is set exactly when the reported state
\* is active and a false->true edge was observed.
C6_StartTimeIffActive ==
  (generationStartTime # Null) <=> (currentState \in ActiveStates /\ EdgePending)

\* C6 (amended): generationStartTime is set exactly from the tick that observes
\* a false->true edge until the completion that follows it, whatever the
\* reported state is meanwhile.
C6_StartTimeIffEdgePending ==
  (generationStartTime # Null) <=> EdgePending

\* The start time is still set while Completed is reported during the cooldown.
C6_Witness ==
  /\ generationStartTime # Null
  /\ cooldownTimer # Null
  /\ currentState = STATES.COMPLETED

(***************************************************************************)
(* Properties of the registry.                                             *)
(***************************************************************************)
\* The number of sessions of the registry in an active state.
ActiveCount == ActiveCountOf(tabsData)

\* The step has handled a second delivery of the last GENERATION_COMPLETE.
Redelivered == ~lastComplete.dup /\ lastComplete'.dup

\* The side effects of the step contain a notification or a sound.
Dispatched(eff) == \E i \in DOMAIN eff : eff[i].kind \in {"notification", "sound"}

\* C3: when the GENERATION_COMPLETE of a monitored session is delivered a
\* second time within one time unit, the second delivery is dropped: it
\* dispatches no notification and no sound.
C3_SecondDeliveryDropped ==
  [][(Redelivered /\ lastComplete.tab \in monitoredTabs) => ~Dispatched(effects')]_vars

\* C7: in every state of the registry a session has a generationStartedAt only
\* while its state is Generating, Thinking or Writing (the half of the claim
\* that does not depend on what the detector observed).
C7_StartedAtOnlyWhenActive ==
  \A t \in DOMAIN tabsData :
    tabsData[t].generationStartedAt # Null => tabsData[t].currentState \in ActiveStates

\* The completions of a list are ordered newest first.
NewestFirst(list) ==
  \A i \in 1..(Len(list) - 1) : list[i].timestamp >= list[i + 1].timestamp

\* The list after is the list before with one entry of the present moment put
\* in front, and the oldest dropped when that makes a sixth.
Prepended(before, after) ==
  /\ Len(after) = IF Len(before) < HistoryMax THEN Len(before) + 1 ELSE HistoryMax
  /\ Head(after).timestamp = now
  /\ \A i \in 2..Len(after) : after[i] = before[i - 1]

\* C8: the history of every session has at most 5 entries, newest first, and a
\* completion applied to a known session prepends its entry, evicting the
\* oldest when it is the sixth.
C8_HistoryBoundedNewestFirst ==
  /\ [](\A t \in DOMAIN tabsData :
          /\ Len(tabsData[t].completions) <= HistoryMax
          /\ NewestFirst(tabsData[t].completions))
  /\ [][(nComplete' = nComplete + 1 /\ lastComplete'.tab \in DOMAIN tabsData)
          => /\ lastComplete'.tab \in DOMAIN tabsData'
             /\ Prepended(tabsData[lastComplete'.tab].completions,
                          tabsData'[lastComplete'.tab].completions)]_vars

\* C8 happens: a completion of this run heads a full history, the oldest
\* entry of the stored history having been evicted.
C8_Witness ==
  \E t \in DOMAIN tabsData :
    /\ nComplete > 0
    /\ Len(tabsData[t].completions) = HistoryMax
    /\ tabsData[t].completions[1].timestamp >= Epoch
    /\ tabsData[t].completions[HistoryMax] = StoredHistory[HistoryMax - 1]

\* The step creates or removes a session, or changes a session's state or history.
RegistryMutated ==
  \/ DOMAIN tabsData' # DOMAIN tabsData
  \/ \E t \in DOMAIN tabsData \cap DOMAIN tabsData' :
       \/ tabsData'[t].currentState # tabsData[t].currentState
       \/ tabsData'[t].completions # tabsData[t].completions

\* The step removes a session or changes a session's state.
StateChangedOrRemoved ==
  \E t \in DOMAIN tabsData :
    \/ t \notin DOMAIN tabsData'
    \/ tabsData'[t].currentState # tabsData[t].currentState

\* The step belongs to the startup sequence (initializeTabsData).
StartupStep == initPc' # initPc \/ discTabs' # discTabs

\* C9 as stated: after every mutation of the registry (discovery with restored
\* state, state change, completion, removal) the badge shows the number of
\* active sessions.
C9_BadgeAfterEveryMutation ==
  [][RegistryMutated => badge' = ActiveCountOf(tabsData')]_vars

\* C9 amended: once startup has finished the badge always shows the number of
\* active sessions; before that it does after every state change and removal
\* made by a message or a tab event, startup itself refreshing the badge only
\* when it ends.
C9_BadgeOnceStarted ==
  /\ [](initPc = "done" => badge = ActiveCount)
  /\ [][(StateChangedOrRemoved /\ ~StartupStep) => badge' = ActiveCountOf(tabsData')]_vars

\* C9 happens: startup has restored two sessions, one of them still active.
C9_Witness ==
  /\ initPc = "done"
  /\ Cardinality(DOMAIN tabsData) = MaxTabs
  /\ ActiveCount = 1
  /\ badge = 1

\* The session carries the four fields of the snapshot record.
Seeded(tab, rec) ==
  /\ tab.currentState = rec.currentState
  /\ tab.stateChangedAt = rec.stateChangedAt
  /\ tab.lastMessageTime = rec.lastMessageTime
  /\ tab.generationStartedAt = rec.generationStartedAt

\* C10: the first session created for an id that had a snapshot when the
\* service worker started is seeded from the snapshot, whichever handler
\* creates it.
C10_CreatedFromSnapshot ==
  [][\A t \in DOMAIN ephAtStart :
       (t \notin created /\ t \in DOMAIN tabsData') => Seeded(tabsData'[t], ephAtStart[t])]_vars

\* C11: a session whose durable record had isMonitored = true when the service
\* worker started is monitored once startup has finished, whatever the order
\* of the storage loads and discovery (no tab or popup event intervening).
C11_MonitoredRestored ==
  (initPc = "done" /\ nEvents = 0) =>
    \A t \in DOMAIN tabsData :
      (t \in DOMAIN persistedData /\ persistedData[t].isMonitored)
        => tabsData[t].isMonitored

\* C12: once every pending ephemeral write has completed, no store holds a
\* record of a session that has ended (a tab that is closed or has left
\* ChatGPT), also when the session ended before startup discovery.
C12_NoOrphanedRecords ==
  ephQ = <<>> =>
    \A t \in TabIds \ liveTabs :
      t \notin DOMAIN ephStore /\ t \notin DOMAIN persistStore

\* C13: a detector whose monitoring is stopped emits nothing: no step taken
\* while isMonitoring is false sends a STATE_CHANGE or a GENERATION_COMPLETE.
C13_StoppedDetectorIsSilent ==
  [][~isMonitoring => sent' = <<>>]_vars

\* The model's clock has reached its last value with a timer still armed.
ClockRanOut ==
  /\ now = Epoch + MaxTicks * POLL_INTERVAL_MS
  /\ \/ pollInterval > now
     \/ cooldownTimer > now
     \/ \E g \in graceTimers : g > now

\* C14: whenever the reported state of a detector with a live context is
\* Completed, it later is not (as far as the clock of the model lets the
\* armed timers run), also when monitoring is stopped while Completed is the
\* reported state.
C14_CompletedYieldsIdle ==
  (ctxValid /\ currentState = STATES.COMPLETED)
    ~> (currentState # STATES.COMPLETED \/ ~ctxValid \/ ClockRanOut)

\* C15: detection does not depend on the monitored flag: a detector that is
\* polling keeps polling as long as its context lives, whether monitoring is
\* turned on or off.
C15_DetectorKeepsPolling ==
  [][(pollInterval # Null /\ ctxValid') => pollInterval' # Null]_vars

\* The side effects contain one of the given kind.
HasEffect(eff, kind) == \E i \in DOMAIN eff : eff[i].kind = kind

\* C16: a completion applied to a known session prepends its entry and sets
\* the state to Completed whether or not the session is monitored; it
\* dispatches a notification only if the session is monitored and
\* notifications are enabled, and a sound only if the session is monitored and
\* sound is enabled.
C16_CompletionGating ==
  [][(nComplete' = nComplete + 1 /\ lastComplete'.tab \in DOMAIN tabsData) =>
       LET t == lastComplete'.tab
       IN  /\ t \in DOMAIN tabsData'
           /\ tabsData'[t].currentState = "completed"
           /\ Prepended(tabsData[t].completions, tabsData'[t].completions)
           /\ HasEffect(effects', "notification")
                => (tabsData[t].isMonitored /\ settings.notificationsEnabled)
           /\ HasEffect(effects', "sound")
                => (tabsData[t].isMonitored /\ settings.soundEnabled)]_vars

\* C17: a STATE_CHANGE for a session that is unknown, or whose state already
\* is the reported one, changes nothing in the registry.
C17_StateChangeNoOp ==
  [][CsStateChange =>
       \A t \in TabIds :
         (/\ csState'[t] # csState[t]
          /\ t \in DOMAIN tabsData => tabsData[t].currentState = csState'[t])
           => tabsData' = tabsData]_vars

\* C18: the stateChangedAt of a session that stays in the registry changes
\* only in a step that changes the session's state.
C18_StateChangedAtFollowsState ==
  [][\A t \in DOMAIN tabsData \cap DOMAIN tabsData' :
       tabsData'[t].stateChangedAt # tabsData[t].stateChangedAt
         => tabsData'[t].currentState # tabsData[t].currentState]_vars

\* C18 happens: a restored session has changed state in this run, and a time
\* stamp message handled later has left its stateChangedAt alone.
C18_Witness ==
  \E t \in DOMAIN tabsData \cap DOMAIN ephAtStart :
    /\ tabsData[t].currentState # ephAtStart[t].currentState
    /\ tabsData[t].stateChangedAt >= Epoch
    /\ tabsData[t].lastMessageTime > tabsData[t].stateChangedAt

\* C19: toggleMonitoring on a known session flips the session's isMonitored
\* flag, returns the new value of the flag, and leaves the session's state,
\* stateChangedAt, generationStartedAt and completions unchanged.
C19_ToggleFlipsFlag ==
  [][ToggleStart =>
       LET call == pendingToggles'[Len(pendingToggles')]
           t == call.tab
       IN  t \in DOMAIN tabsData =>
             /\ t \in DOMAIN tabsData'
             /\ tabsData'[t].isMonitored = ~tabsData[t].isMonitored
             /\ call.isMonitored = tabsData'[t].isMonitored
             /\ tabsData'[t] = [tabsData[t] EXCEPT !.isMonitored = ~@]]_vars

\* C20 as stated: removing an id that has no session leaves the registry, the
\* monitored set and the stores as they were.
C20_RemoveAbsentIsNoOp ==
  \A t \in TabIds : t \notin DOMAIN tabsData => forgetTab(Reg, t) = Reg

\* C20 amended: removing an id that has neither a session nor an entry in the
\* monitored set changes nothing, and removing any id twice leaves what
\* removing it once leaves.
C20_RemoveIdempotent ==
  \A t \in TabIds :
    /\ (t \notin DOMAIN tabsData /\ t \notin monitoredTabs) => forgetTab(Reg, t) = Reg
    /\ forgetTab(forgetTab(Reg, t), t) = forgetTab(Reg, t)

\* C20 happens: one session has been removed and is gone from the monitored
\* set too, while removing another id would still change the registry.
C20_Witness ==
  /\ \E t \in created :
       t \notin DOMAIN tabsData /\ t \notin monitoredTabs /\ t \notin liveTabs
  /\ \E t \in TabIds : forgetTab(Reg, t) # Reg

(***************************************************************************)
(* Properties of discovery, ordering and settings.                         *)
(***************************************************************************)
\* C21 (as claimed): discovering an id that is already in the registry, by
\* the loop of startup discovery or by a tab finishing its load, leaves the
\* session of that id (state, stateChangedAt, generationStartedAt, monitored,
\* completions) as it was.
C21_DiscoverKeepsSession ==
  /\ [](\A t \in DOMAIN tabsData, la \in LastAccessedValues :
          discoverVisit(Reg, t, la, ephemeralData).tabsData = tabsData)
  /\ [][TabLoaded => \A t \in DOMAIN tabsData :
                       t \in DOMAIN tabsData' /\ tabsData'[t] = tabsData[t]]_vars

\* The message the background handled in the last step, if it handled one.
AppliedComplete ==
  lastApplied' # lastApplied /\ nComplete' = nComplete + 1

\* C22: the background handles the messages of a content script in the order
\* they were sent, none skipped; when it adds a completion to the history the
\* session's state is Completed, already before the handler runs (the
\* STATE_CHANGE sent earlier has been applied) and after it; and once every
\* message sent has been handled the session shows the state the content
\* script reported last.
C22_AppliedInEmissionOrder ==
  /\ [][lastApplied' # lastApplied => lastApplied' = lastApplied + 1]_vars
  /\ [][AppliedComplete =>
          /\ tabsData[LinkTab].currentState = "completed"
          /\ tabsData'[LinkTab].currentState = "completed"
          /\ Len(tabsData'[LinkTab].completions) =
               Len(tabsData[LinkTab].completions) + 1]_vars
  /\ []((chan = <<>> /\ lastApplied > 0)
          => tabsData[LinkTab].currentState = currentState)

\* C22 happens: a completion has been added behind the state changes of its
\* generation while a later state change was already waiting.
C22_Witness ==
  /\ Len(tabsData[LinkTab].completions) = 1
  /\ tabsData[LinkTab].currentState = "completed"
  /\ lastApplied >= 4
  /\ chan # <<>>
  /\ chan[1].msg.state = "idle"

\* C23: the stability window of a detector that is monitoring does not change,
\* whatever START_MONITORING requests reach it; the window changes only in
\* the step that starts a detector that was not monitoring, and a timer that
\* is pending keeps the delay it was armed with.
C23_WindowFixedWhileMonitoring ==
  /\ [][isMonitoring => stabilityWindowMs' = stabilityWindowMs]_vars
  /\ [][stabilityWindowMs' # stabilityWindowMs
          => (~isMonitoring /\ isMonitoring')]_vars
  /\ [][(cooldownTimer # Null /\ cooldownTimer' # Null)
          => cooldownTimer' = cooldownTimer]_vars

\* C23 happens: a detector started with a window other than the default has
\* armed its timer with it.
C23_Witness ==
  /\ isMonitoring
  /\ stabilityWindowMs # DefaultStabilityWindowMs
  /\ cooldownTimer # Null
  /\ cooldownTimer = stopEdgeAt + stabilityWindowMs

\* The request a handler has asked the browser to send to a tab.
Requested(eff, kind, tabId) ==
  \E i \in DOMAIN eff : eff[i].kind = kind /\ eff[i].tab = tabId

\* C24 (as claimed): whatever tab finishes loading ChatGPT, with
\* autoEnableEnabled the tab is in the monitored set and its session is
\* flagged monitored afterwards, and START_MONITORING is sent to a tab that
\* was not monitored; without autoEnableEnabled the set and the flag are as
\* they were before the load.
C24_AutoMonitorOnLoad ==
  \A t \in TabIds, la \in LastAccessedValues :
    LET r == onTabComplete(Reg, t, la)
    IN  /\ settings.autoEnableEnabled =>
             /\ t \in r.monitoredTabs
             /\ t \in DOMAIN r.tabsData
             /\ r.tabsData[t].isMonitored
             /\ t \notin monitoredTabs => Requested(r.effects, "START_MONITORING", t)
        /\ ~settings.autoEnableEnabled =>
             /\ (t \in r.monitoredTabs) <=> (t \in monitoredTabs)
             /\ t \in DOMAIN tabsData =>
                  r.tabsData[t].isMonitored = tabsData[t].isMonitored

(***************************************************************************)
(* Properties of the detector's reports.                                   *)
(***************************************************************************)
\* The state the classification rule gives.
Classified(active, intermediate, content, previous, timerPending) ==
  CASE ~active /\ ~timerPending -> STATES.IDLE
    [] ~active /\ timerPending -> STATES.COMPLETED
    [] active /\ intermediate -> STATES.THINKING
    [] active /\ ~intermediate /\ content # <<>> /\ content # previous
         -> STATES.WRITING
    [] OTHER -> STATES.GENERATING

\* Texts to classify: none, and two that differ.
ClassTexts == Texts \cup {<<"a", "b">>}

\* C25: for every combination of the three reads of the page, the text of
\* the previous tick and a pending or absent timer, the computed state is the
\* one the rule gives; and the state a tick of a monitoring detector leaves
\* as reported is the one the rule gives for what the tick read.
C25_Classification ==
  /\ [](\A g \in BOOLEAN, th \in BOOLEAN, text \in ClassTexts,
           prev \in ClassTexts, timer \in {Null, now + POLL_INTERVAL_MS} :
          detailedState(g, th, text,
                        [Det EXCEPT !.lastAssistantText = prev,
                                    !.cooldownTimer = timer])
            = Classified(g, th, text, prev, timer # Null))
  /\ [][(PollTick /\ isMonitoring) =>
          currentState' = Classified(sigGenerating, sigThinking, sigText,
                                     lastAssistantText, cooldownTimer # Null)]_vars

\* C25 happens: a tick has just reported Writing for a text that differs from
\* the one of the tick before.
C25_Witness ==
  /\ sent # <<>>
  /\ sent[1].type = "STATE_CHANGE"
  /\ sent[1].state = STATES.WRITING
  /\ currentState = STATES.WRITING
  /\ lastAssistantText = sigText

\* The STATE_CHANGE messages among the messages of a step.
StateChanges(msgs) == {i \in DOMAIN msgs : msgs[i].type = "STATE_CHANGE"}

C27_StartTimeNotOverwritten ==
  /\ [][(generationStartTime # Null /\ generationStartTime' # Null)
          => generationStartTime' = generationStartTime]_vars
  /\ [][\A t \in DOMAIN tabsData \cap DOMAIN tabsData' :
          (Truthy(tabsData[t].generationStartedAt)
             /\ Truthy(tabsData'[t].generationStartedAt))
            => tabsData'[t].generationStartedAt = tabsData[t].generationStartedAt]_vars

\* The last step sent STATE_CHANGE with the state Idle.
IdleSent(msgs) == \E i \in StateChanges(msgs) : msgs[i].state = STATES.IDLE

\* No false->true edge has been observed since the last completion.
NoNewGeneration == edgeObs \in {"fired", "cold"}

\* C28 (as claimed): when a completion has just been sent the reported state is
\* Completed, and as long as no new generation has been observed since, Idle
\* is reported only once the 3000 ms timeout armed by the completion is due.
C28_IdleOnlyAfterGrace ==
  /\ []((JustCompleted /\ ctxValid) => currentState = STATES.COMPLETED)
  /\ [][(IdleSent(sent') /\ NoNewGeneration')
          => \A g \in graceTimers : g <= now']_vars

\* The GENERATION_COMPLETE messages among the messages of a step.
Completions(msgs) == {i \in DOMAIN msgs : msgs[i].type = "GENERATION_COMPLETE"}

ValidTime(v) == v # Null /\ v > 0

\* Discovery has just created the session of tab t from the record read at
\* startup, and waits for the content script's answer.
JustRestored(t) ==
  /\ initPc = "awaitContent"
  /\ discTabs # <<>>
  /\ Head(discTabs) = t
  /\ t \in DOMAIN ephemeralData
  /\ t \in DOMAIN tabsData

\* C30: each field of the session created from a stored record is the
\* record's field when that field is usable, and its default when it is not,
\* whatever the other fields of the record are.
C30_RestorePerField ==
  \A t \in TabIds :
    JustRestored(t) =>
      LET rec == ephemeralData[t]
          tab == tabsData[t]
      IN  /\ tab.currentState = IF rec.currentState \in VALID_STATES
                                THEN rec.currentState ELSE "idle"
          /\ IF ValidTime(rec.stateChangedAt)
             THEN tab.stateChangedAt = rec.stateChangedAt
             ELSE tab.stateChangedAt \in {PastT, now}
          /\ tab.lastMessageTime = IF ValidTime(rec.lastMessageTime)
                                   THEN rec.lastMessageTime ELSE Null
          /\ tab.generationStartedAt = IF ValidTime(rec.generationStartedAt)
                                       THEN rec.generationStartedAt ELSE Null

\* C30 happens: a record with an unrecognised state and a zero stateChangedAt
\* has given a session that is idle since a default time and keeps the
\* record's two other time stamps.
C30_Witness ==
  /\ JustRestored(LinkTab)
  /\ ephemeralData[LinkTab].currentState = "paused"
  /\ ephemeralData[LinkTab].stateChangedAt = 0
  /\ tabsData[LinkTab].currentState = "idle"
  /\ tabsData[LinkTab].stateChangedAt = now
  /\ tabsData[LinkTab].lastMessageTime = PastT - 1
  /\ tabsData[LinkTab].generationStartedAt = PastT - 1

(***************************************************************************)
(* Properties of the registry against its environment.                     *)
(***************************************************************************)
\* The variables of the detector's state machine and its timers.
machine == <<isMonitoring, wasGenerating, cooldownTimer, pollInterval,
             lastAssistantText, generationStartTime, stabilityWindowMs,
             currentState, graceTimers>>

\* The background handles a CONVERSATION_TIMESTAMP in this step.
TimestampDelivered ==
  /\ chan # <<>>
  /\ lastApplied' # lastApplied
  /\ chan[1].msg.type = "CONVERSATION_TIMESTAMP"

\* The handler of CONVERSATION_TIMESTAMP changes lastMessageTime of the session
\* and nothing else of the registry.
TimestampOnlyInRegistry ==
  [][TimestampDelivered =>
       /\ tabsData' = [tabsData EXCEPT ![LinkTab].lastMessageTime =
                                          chan[1].msg.updateTime]
       /\ UNCHANGED <<monitoredTabs, badge, persistStore, monitoredStore>>
       /\ effects' = <<>>]_vars

\* C31 (as claimed): a time stamp posted by the page at any time changes none
\* of the detector's state machine variables and timers and sends neither a
\* STATE_CHANGE nor a GENERATION_COMPLETE, and in the registry it changes
\* lastMessageTime only.
C31_TimestampChangesNothingElse ==
  /\ [][StampPosted =>
          /\ machine' = machine
          /\ StateChanges(sent') = {}
          /\ Completions(sent') = {}]_vars
  /\ TimestampOnlyInRegistry

\* C31 (amended): as claimed while the extension context is valid; in an
\* invalidated context the time stamp is not forwarded and the detector is
\* stopped: monitoring off, poll interval and stability timer cancelled, the
\* rest of its variables unchanged.
C31_TimestampChangesNothingElseWhileValid ==
  /\ [][(StampPosted /\ ctxValid) =>
          /\ machine' = machine
          /\ StateChanges(sent') = {}
          /\ Completions(sent') = {}
          /\ Len(sent') = 1]_vars
  /\ [][(StampPosted /\ ~ctxValid) =>
          /\ ~isMonitoring' /\ cooldownTimer' = Null /\ pollInterval' = Null
          /\ sent' = <<>>
          /\ UNCHANGED <<wasGenerating, lastAssistantText, generationStartTime,
                         stabilityWindowMs, currentState, graceTimers>>]_vars
  /\ TimestampOnlyInRegistry

\* C31 happens: the registry has stored a time stamp for a session that is
\* generating, and the detector, whose stability timer is pending, has just
\* forwarded another.
C31_Witness ==
  /\ tabsData[LinkTab].lastMessageTime = PastT
  /\ tabsData[LinkTab].currentState = "generating"
  /\ tabsData[LinkTab].generationStartedAt # Null
  /\ cooldownTimer # Null
  /\ isMonitoring
  /\ sent # <<>>
  /\ sent[1].type = "CONVERSATION_TIMESTAMP"

\* discoverChatGPTTabs starts the visit of a tab in this step.
Visits(t) == discTabs' # <<>> /\ discTabs' # discTabs /\ Head(discTabs') = t

\* A discovery pass over an empty enumeration starts and ends in this step:
\* every id the registry knows is absent from the enumeration.
PassOverNothing == initPc = "query" /\ initPc' = "done" /\ liveTabs = {}

\* C32: a discovery pass puts every enumerated id into the registry, and a
\* pass removes from the registry every id known before it that is absent
\* from its enumeration (stated for the pass over an empty enumeration, before
\* which every known id is absent).
C32_DiscoveryReconciles ==
  /\ [][\A t \in TabIds : Visits(t) => t \in DOMAIN tabsData']_vars
  /\ [][PassOverNothing => tabsData' = EmptyMap]_vars

\* C33: the monitored flag of every session of the registry says whether its
\* id is in monitoredTabs, the set that gates notifications and sounds.
C33_FlagIsSetMembership ==
  \A t \in DOMAIN tabsData : tabsData[t].isMonitored <=> t \in monitoredTabs

\* The fields of a session that persistEphemeralFields stores.
EphemeralFields(tab) ==
  [currentState |-> tab.currentState,
   stateChangedAt |-> tab.stateChangedAt,
   lastMessageTime |-> tab.lastMessageTime,
   generationStartedAt |-> tab.generationStartedAt]

\* C34: once every ephemeral write that was started has completed, the
\* ephemeral store holds, for every session of the registry, the session's
\* state, stateChangedAt, lastMessageTime and generationStartedAt as they are
\* in memory.
C34_EphemeralStoreConverges ==
  ephQ = <<>> =>
    \A t \in DOMAIN tabsData :
      t \in DOMAIN ephStore /\ ephStore[t] = EphemeralFields(tabsData[t])

\* C35: a step of startup discovery does not put into the registry a session
\* that has ended: a tab that was closed or left ChatGPT after the pass
\* obtained its enumeration is not added again when the pass resumes.
C35_DiscoveryDoesNotReviveRemoved ==
  [][StartupStep =>
       \A t \in DOMAIN tabsData' \ DOMAIN tabsData : t \in liveTabs]_vars

\* C36: a GENERATION_COMPLETE that dispatches a notification or a sound is of
\* a session that is in the registry when it arrives, and the entry of the
\* completion is put at the head of that session's history.
C36_NotifiedCompletionIsRecorded ==
  [][(nComplete' = nComplete + 1 /\ Dispatched(effects')) =>
       LET t == lastComplete'.tab
       IN  /\ t \in DOMAIN tabsData
           /\ t \in DOMAIN tabsData'
           /\ Prepended(tabsData[t].completions, tabsData'[t].completions)]_vars

\* The user has turned the monitoring of a tab off: the call of
\* toggleMonitoring that did it is awaiting the content script, or has just
\* returned { isMonitored: false }.
UserTurnedOff(t) ==
  \/ \E i \in DOMAIN pendingToggles :
       pendingToggles[i].tab = t /\ ~pendingToggles[i].isMonitored
  \/ Requested(effects, "RETURN_UNMONITORED", t)

\* C37: the load or reload of a page does not turn on the monitoring of a
\* session whose monitoring the user has turned off.
C37_UserOffSurvivesReload ==
  [][TabLoaded =>
       \A t \in TabIds :
         UserTurnedOff(t) =>
           /\ t \notin monitoredTabs'
           /\ t \in DOMAIN tabsData' => ~tabsData'[t].isMonitored]_vars

\* C38: a detector that a page load or a START_MONITORING request starts
\* works with the stability window of the settings as they are then.
C38_ResumeUsesConfiguredWindow ==
  [][((ResumeOnLoad \/ ResumeToggle) /\ isMonitoring') =>
       stabilityWindowMs' = settings.stabilityWindowMs]_vars

\* C39: whenever no message of the content script is in flight, the state the
\* registry holds for the session is the state of the detector of its tab
\* (the state it reported last, Idle for a detector that has just been
\* created), also after a page load and after monitoring is stopped.
C39_RegistryTracksDetector ==
  (chan = <<>> /\ LinkTab \in DOMAIN tabsData) =>
    tabsData[LinkTab].currentState = currentState

\* C40: a GENERATION_COMPLETE is sent only after a start edge and then a stop
\* edge that the detector observed since monitoring was last started: a start
\* time that was recorded before a stop does not make a completion of the
\* first stop edge after the restart.
C40_CompletionNeedsEdgeSinceRestart ==
  JustCompleted => (edgeObs = "fired" /\ startEdgeAt # Null)

====
